---- MODULE Spec2Model ----
(***************************************************************************)
(* FastDrop: the renderer's upload registry (src/src/App.tsx) together     *)
(* with the result the main process hands back for an upload request       *)
(* (src/src/main.ts, 'upload-file', uploadTo0x0 and uploadToGoogleDrive).  *)
(*                                                                         *)
(* The registry is the React state `files`, an array that every callback   *)
(* rewrites with a functional updater.  An upload is one activation of the *)
(* async function uploadFile: it closes over fileIndex, the entry it read  *)
(* at that index, and autoCopy, and it owns one interval timer.            *)
(*                                                                         *)
(* The main process is followed call by call where a property is about    *)
(* its calls: the invocations of uploadTo0x0 and uploadToGoogleDrive, and  *)
(* the handlers that read and write config.json.                           *)
(*                                                                         *)
(* Strings are modelled as sequences of tokens, so that split('/'),        *)
(* trim() and template strings are computed rather than assumed.           *)
(***************************************************************************)
EXTENDS Integers, Sequences, FiniteSets, Bags, TLC

\* ------------------------------------------------------------------ bounds
\* Number of uploadFile activations whose provider call is unresolved.
MaxInflight == 2

\* Number of invocations of the handlers that write the config file.
MaxCalls == 2

\* ------------------------------------------------------- program constants
\* progress: f.progress + ProgressStep, while f.progress < ProgressCap; progress: 100 on success.
ProgressStep == 10

ProgressCap == 90

ProgressDone == 100

\* ----------------------------------------------------------------- strings
\* The value of an optional field (url?, error?) that was never assigned.
Undefined == <<"undefined">>

\* The paths the user submits, as the result of filePath.split('/'):
\* "/a" and "b/".
Paths == { <<"", "a">>, <<"b", "">> }

\* String.prototype.trim on a token sequence: strips " " at both ends.
RECURSIVE TrimStart(_)
TrimStart(s) ==
    IF s # <<>> /\ Head(s) = " " THEN TrimStart(Tail(s)) ELSE s

RECURSIVE TrimEnd(_)
TrimEnd(s) ==
    IF s # <<>> /\ s[Len(s)] = " " THEN TrimEnd(SubSeq(s, 1, Len(s) - 1)) ELSE s

Trim(s) == TrimEnd(TrimStart(s))

\* filePath.split('/').pop() || filePath
FileName(filePath) ==
    IF filePath[Len(filePath)] # "" THEN <<filePath[Len(filePath)]>> ELSE filePath

\* --------------------------------------------------------- main process
\* What the outside world answers to one upload of the file at filePath:
\* the file cannot be read, or 0x0.st answers with a status and a body.
\* The body is tagged with the path of the request it answers.
Responses(filePath) ==
    { [readable |-> FALSE, ok |-> FALSE, status |-> "-", body |-> <<"ENOENT">> \o filePath] }
    \cup { [readable |-> TRUE, ok |-> TRUE, status |-> "200", body |-> b] :
             b \in { <<" ", "https://0x0.st/">> \o filePath \o <<" ", " ">>,
                     <<" ">> } }
    \cup { [readable |-> TRUE, ok |-> FALSE, status |-> "500", body |-> <<"busy">>] }

\* uploadTo0x0 returning the body as it came.
UploadTo0x0_Untrimmed(resp) ==
    IF ~resp.ok
    THEN [resolved |-> FALSE, isError |-> TRUE,
          value |-> <<"Upload to 0x0.st failed: ", resp.status, " - ">> \o resp.body]
    ELSE [resolved |-> TRUE, isError |-> FALSE, value |-> resp.body]

\* uploadTo0x0: the trimmed body on a 2xx answer, otherwise an Error.
UploadTo0x0(resp) ==
    IF ~resp.ok
    THEN [resolved |-> FALSE, isError |-> TRUE,
          value |-> <<"Upload to 0x0.st failed: ", resp.status, " - ">> \o resp.body]
    ELSE [resolved |-> TRUE, isError |-> FALSE, value |-> Trim(resp.body)]

\* ipcMain.handle('upload-file'): reads the file, calls the provider and
\* rethrows every failure as Error(`Upload failed: ${error}`).
UploadFileHandler(resp) ==
    IF ~resp.readable
    THEN [resolved |-> FALSE, isError |-> TRUE,
          value |-> <<"Upload failed: ">> \o resp.body]
    ELSE LET r == UploadTo0x0(resp)
         IN  IF r.resolved THEN r
             ELSE [resolved |-> FALSE, isError |-> TRUE,
                   value |-> <<"Upload failed: ">> \o r.value]

\* ------------------------------------------------------------- renderer
\* What 0x0.st answers to the POST for the file at filePath: the answers of
\* Responses, a 201 whose body has white space inside, and a 404 whose body
\* starts with white space.
HostAnswers(filePath) ==
    { r \in Responses(filePath) : r.readable }
    \cup { [readable |-> TRUE, ok |-> TRUE, status |-> "201",
            body |-> <<"https://0x0.st/x", " ", "y", " ">>],
           [readable |-> TRUE, ok |-> FALSE, status |-> "404", body |-> <<" ", "gone">>] }

\* The 'upload-file' handler for '0x0' before it is invoked.  pc is the
\* point the invocation has reached, posts counts its calls to fetch,
\* response is the answer to the last one and result is what the handler
\* hands back.
NoResponse == [readable |-> FALSE, ok |-> FALSE, status |-> "-", body |-> <<>>]

IdleHost ==
    [pc |-> "idle", path |-> <<>>, posts |-> 0, response |-> NoResponse,
     result |-> [resolved |-> FALSE, isError |-> FALSE, value |-> <<>>]]

\* readFile(filePath) of the handler.
AfterRead(h, readable) ==
    IF readable THEN [h EXCEPT !.pc = "fetch"]
    ELSE [h EXCEPT !.pc = "done",
                   !.result = UploadFileHandler([NoResponse EXCEPT !.body = <<"ENOENT">> \o h.path])]

\* The POST sent again after an answer that is not 2xx.
AfterFetch_Retries(h, resp) ==
    IF resp.ok
    THEN [h EXCEPT !.pc = "done", !.posts = @ + 1, !.response = resp,
                   !.result = UploadFileHandler(resp)]
    ELSE [h EXCEPT !.posts = @ + 1, !.response = resp]

\* await fetch('https://0x0.st', ...) and the rest of uploadTo0x0.
AfterFetch(h, resp) ==
    [h EXCEPT !.pc = "done", !.posts = @ + 1, !.response = resp,
              !.result = UploadFileHandler(resp)]

\* The config file as the handlers of the main process find it:
\* existsSync(configPath), whether JSON.parse accepts it, whether
\* config.googleCredentials is truthy, the two strings of that record (""
\* when the field is empty), config.autoCopy and config.autoStart (FALSE
\* when absent).
\* over is not in the file: it says what the write that produced the file
\* found in its place, "-" for a file the program has not written.
NoConfigFile ==
    [exists |-> FALSE, parses |-> FALSE, googleCredentials |-> FALSE,
     clientId |-> "", clientSecret |-> "", autoCopy |-> FALSE, autoStart |-> FALSE,
     over |-> "-"]

CorruptedFile == [NoConfigFile EXCEPT !.exists = TRUE]

EmptyRecord == [NoConfigFile EXCEPT !.exists = TRUE, !.parses = TRUE]

ConfigFiles ==
    { NoConfigFile, CorruptedFile }
    \cup { [EmptyRecord EXCEPT !.autoCopy = a] : a \in BOOLEAN }
    \cup { [EmptyRecord EXCEPT !.googleCredentials = TRUE, !.clientId = i,
                               !.clientSecret = k, !.autoCopy = a] :
              i \in {"", "stored-id"}, k \in {"", "stored-secret"}, a \in BOOLEAN }

\* process.env: an unset variable and an empty one are both "" after || ''.
Environments ==
    [GOOGLE_CLIENT_ID : {"", "env-id"}, GOOGLE_CLIENT_SECRET : {"", "env-secret"}]

\* The start of the writing handlers without the inner catch: a file that
\* does not parse is left as it is.
ReadForUpdate_NoCatch(c) ==
    LET found == IF ~c.exists THEN "missing" ELSE IF ~c.parses THEN "corrupted" ELSE "record"
    IN  IF c.exists THEN [c EXCEPT !.over = found]
        ELSE [EmptyRecord EXCEPT !.over = found]

\* The start of both writing handlers: the parsed record of an existing
\* file, {} when there is no file or JSON.parse throws.
ReadForUpdate(c) ==
    LET found == IF ~c.exists THEN "missing" ELSE IF ~c.parses THEN "corrupted" ELSE "record"
    IN  IF c.exists /\ c.parses THEN [c EXCEPT !.over = found]
        ELSE [EmptyRecord EXCEPT !.over = found]

\* What 'save-google-credentials' leaves in the config file.
SavedConfig(c, clientId, clientSecret) ==
    [ReadForUpdate(c) EXCEPT !.googleCredentials = TRUE,
                             !.clientId = clientId, !.clientSecret = clientSecret]

\* What 'set-auto-copy' leaves in the config file.
WithAutoCopy(c, enabled) == [ReadForUpdate(c) EXCEPT !.autoCopy = enabled]

\* 'get-auto-copy': config.autoCopy || false, false without a readable file.
GetAutoCopy(c) == IF c.exists /\ c.parses THEN c.autoCopy ELSE FALSE

\* 'get-google-credentials': the stored pair, or null (here <<>>).
GetGoogleCredentials(c) ==
    IF c.exists /\ c.parses /\ c.googleCredentials /\ c.clientId # "" /\ c.clientSecret # ""
    THEN << [clientId |-> c.clientId, clientSecret |-> c.clientSecret] >>
    ELSE << >>

\* The environment taken first when it has both values.
ResolvedCredentials_EnvFirst(c, e) ==
    IF e.GOOGLE_CLIENT_ID # "" /\ e.GOOGLE_CLIENT_SECRET # ""
    THEN [CLIENT_ID |-> e.GOOGLE_CLIENT_ID, CLIENT_SECRET |-> e.GOOGLE_CLIENT_SECRET]
    ELSE [CLIENT_ID |-> c.clientId, CLIENT_SECRET |-> c.clientSecret]

\* uploadToGoogleDrive, the inner try: the stored record when the file
\* exists, parses and has googleCredentials; in every other case the catch
\* takes the environment.
ResolvedCredentials(c, e) ==
    IF c.exists /\ c.parses /\ c.googleCredentials
    THEN [CLIENT_ID |-> c.clientId, CLIENT_SECRET |-> c.clientSecret]
    ELSE [CLIENT_ID |-> e.GOOGLE_CLIENT_ID, CLIENT_SECRET |-> e.GOOGLE_CLIENT_SECRET]

\* The test with the secret left out.
Configured_IdOnly(cr) == cr.CLIENT_ID # ""

\* The negation of if (!CLIENT_ID || !CLIENT_SECRET).
Configured(cr) == cr.CLIENT_ID # "" /\ cr.CLIENT_SECRET # ""

\* An Error thrown inside uploadToGoogleDrive, as the renderer gets it: the
\* outer catch and the 'upload-file' handler each wrap it.
DriveFailure(message) ==
    [resolved |-> FALSE, isError |-> TRUE,
     value |-> <<"Upload failed: ", "Google Drive upload failed: ">> \o message]

NotConfigured ==
    <<"Google Drive credentials not configured. Please configure them in the settings.">>

NoFileId == <<"Failed to upload file to Google Drive">>

\* The error of a drive.files.create or drive.permissions.create call that
\* rejects.
ApiError(call) == <<call, ": request failed">>

\* `https://drive.google.com/file/d/${fileId}/view`
DriveUrl(fileId) == <<"https://drive.google.com/file/d/", fileId, "/view">>

\* readFile(filePath) of the 'upload-file' handler rejects.
ReadFailure(filePath) ==
    [resolved |-> FALSE, isError |-> TRUE,
     value |-> <<"Upload failed: ", "ENOENT">> \o filePath]

\* The 'upload-file' handler for 'googledrive' before it is invoked.  pc is
\* the point the invocation has reached, credentials the pair resolved by it
\* (<<>> before), creates and grants count its calls to drive.files.create
\* and drive.permissions.create, created and permission are how the two
\* calls ended and result is what the handler hands back.
NoResult == [resolved |-> FALSE, isError |-> FALSE, value |-> <<>>]

IdleDrive ==
    [pc |-> "idle", path |-> <<>>, credentials |-> <<>>, creates |-> 0, grants |-> 0,
     created |-> "-", permission |-> "-", fileId |-> "", result |-> NoResult]

\* readFile, then uploadToGoogleDrive up to the test of the credentials.
AfterResolve(d, readable, c, e) ==
    LET cr == ResolvedCredentials(c, e)
    IN  IF ~readable
        THEN [d EXCEPT !.pc = "done", !.result = ReadFailure(d.path)]
        ELSE IF ~Configured(cr)
        THEN [d EXCEPT !.pc = "done", !.credentials = <<cr>>,
                       !.result = DriveFailure(NotConfigured)]
        ELSE [d EXCEPT !.pc = "create", !.credentials = <<cr>>]

\* The answers to drive.files.create: the call rejects, or it resolves
\* with response.data.id missing or set.
CreateAnswers == {"rejects", "noId", "f1"}

\* The test of the identifier left out.
HasFileId_Always(answer) == TRUE

\* The negation of if (!fileId), for the answer of a call that resolved.
HasFileId(answer) == answer # "noId"

\* How the call ended, whatever the handler makes of it.
Created(answer) ==
    IF answer = "rejects" THEN "rejects" ELSE IF answer = "noId" THEN "noId" ELSE "id"

\* The link returned as soon as the object is created.
AfterCreate_NoGrant(d, answer) ==
    IF answer = "rejects"
    THEN [d EXCEPT !.pc = "done", !.creates = @ + 1, !.created = Created(answer),
                   !.result = DriveFailure(ApiError("files.create"))]
    ELSE IF ~HasFileId(answer)
    THEN [d EXCEPT !.pc = "done", !.creates = @ + 1, !.created = Created(answer),
                   !.result = DriveFailure(NoFileId)]
    ELSE [d EXCEPT !.pc = "done", !.creates = @ + 1, !.created = Created(answer),
                   !.fileId = answer,
                   !.result = [resolved |-> TRUE, isError |-> FALSE, value |-> DriveUrl(answer)]]

\* await drive.files.create(...), then the test of response.data.id.
AfterCreate(d, answer) ==
    IF answer = "rejects"
    THEN [d EXCEPT !.pc = "done", !.creates = @ + 1, !.created = Created(answer),
                   !.result = DriveFailure(ApiError("files.create"))]
    ELSE IF ~HasFileId(answer)
    THEN [d EXCEPT !.pc = "done", !.creates = @ + 1, !.created = Created(answer),
                   !.result = DriveFailure(NoFileId)]
    ELSE [d EXCEPT !.pc = "grant", !.creates = @ + 1, !.created = Created(answer),
                   !.fileId = answer]

\* The grant called again after it failed.
AfterPermission_Retries(d, ok) ==
    IF ok
    THEN [d EXCEPT !.pc = "done", !.grants = @ + 1, !.permission = "ok",
                   !.result = [resolved |-> TRUE, isError |-> FALSE, value |-> DriveUrl(d.fileId)]]
    ELSE [d EXCEPT !.grants = @ + 1, !.permission = "failed"]

\* await drive.permissions.create(...), then the return of the view link.
AfterPermission(d, ok) ==
    IF ok
    THEN [d EXCEPT !.pc = "done", !.grants = @ + 1, !.permission = "ok",
                   !.result = [resolved |-> TRUE, isError |-> FALSE, value |-> DriveUrl(d.fileId)]]
    ELSE [d EXCEPT !.pc = "done", !.grants = @ + 1, !.permission = "failed",
                   !.result = DriveFailure(ApiError("permissions.create"))]

VARIABLES
    files,      \* useState<FileUpload[]>: the registry
    autoCopy,   \* useState(false): the auto-copy flag
    uploads,    \* bag of the activations of uploadFile awaiting the provider call
    timers,     \* bag of the activations whose interval timer is set
    out,        \* clipboard writes and notification requests of the last step
    config,     \* the config file of the main process
    env,        \* process.env of the main process
    drive,      \* the invocation of 'upload-file' for 'googledrive'
    host,       \* the invocation of 'upload-file' for '0x0', followed call by call
    calls       \* the invocations of the handlers that write the config file

vars == <<files, autoCopy, uploads, timers, out, config, env, drive, host, calls>>

mainVars == <<config, env, drive, host, calls>>

\* The entry added with the result of an upload already in it.
NewFile_Finished(filePath) ==
    [path |-> filePath, name |-> FileName(filePath), state |-> "success",
     progress |-> ProgressDone, url |-> filePath, error |-> Undefined]

\* const newFile: FileUpload = {...} in addFile
NewFile(filePath) ==
    [path |-> filePath, name |-> FileName(filePath), state |-> "idle",
     progress |-> 0, url |-> Undefined, error |-> Undefined]

\* addFile without the lookup of an existing entry.
AddedFiles_NoDedup(prev, filePath) == Append(prev, NewFile(filePath))

\* The updater of addFile.
AddedFiles(prev, filePath) ==
    IF \E i \in DOMAIN prev : prev[i].path = filePath
    THEN prev
    ELSE Append(prev, NewFile(filePath))

\* The first updater with the state left as it was.
StartedFiles_StaysIdle(prev, fileIndex) ==
    LET G(f) == [f EXCEPT !.progress = 0]
    IN  [i \in DOMAIN prev |-> IF i = fileIndex THEN G(prev[i]) ELSE prev[i]]

\* The first updater of uploadFile.
StartedFiles(prev, fileIndex) ==
    LET G(f) == [f EXCEPT !.state = "uploading", !.progress = 0]
    IN  [i \in DOMAIN prev |-> IF i = fileIndex THEN G(prev[i]) ELSE prev[i]]

\* The timer with the cap tested as progress <= 90.
TickedFiles_CapInclusive(prev, fileIndex) ==
    LET G(f) == IF f.state = "uploading" /\ f.progress <= ProgressCap
                THEN [f EXCEPT !.progress = f.progress + ProgressStep]
                ELSE f
    IN  [i \in DOMAIN prev |-> IF i = fileIndex THEN G(prev[i]) ELSE prev[i]]

\* The updater run by the interval timer.
TickedFiles(prev, fileIndex) ==
    LET G(f) == IF f.state = "uploading" /\ f.progress < ProgressCap
                THEN [f EXCEPT !.progress = f.progress + ProgressStep]
                ELSE f
    IN  [i \in DOMAIN prev |-> IF i = fileIndex THEN G(prev[i]) ELSE prev[i]]

\* The updater after the provider call resolved.
SucceededFiles(prev, fileIndex, url) ==
    LET G(f) == [f EXCEPT !.state = "success", !.progress = ProgressDone, !.url = Trim(url)]
    IN  [i \in DOMAIN prev |-> IF i = fileIndex THEN G(prev[i]) ELSE prev[i]]

\* error instanceof Error ? error.message : 'Upload failed'
ErrorText(r) == IF r.isError THEN r.value ELSE <<"Upload failed">>

\* The updater in the catch block.
FailedFiles(prev, fileIndex, r) ==
    LET G(f) == [f EXCEPT !.state = "error", !.progress = 0, !.error = ErrorText(r)]
    IN  [i \in DOMAIN prev |-> IF i = fileIndex THEN G(prev[i]) ELSE prev[i]]

\* The filter that also drops what follows the entry.
RemovedFiles_DropsTail(prev, index) == [i \in 1..(index - 1) |-> prev[i]]

\* The updater of removeFile: prev.filter((_, i) => i !== index)
RemovedFiles(prev, index) ==
    [i \in 1..(Len(prev) - 1) |-> IF i < index THEN prev[i] ELSE prev[i + 1]]

\* The Upload button left in place while the entry is uploading.
ShowsUploadButton_WhileUploading(f) == f.state \in {"idle", "uploading"}

\* The Upload button is rendered for idle entries only.
ShowsUploadButton(f) == f.state = "idle"

\* One side effect: kind is "clipboard" or "notify".
Effect(kind, title, body, url) ==
    [kind |-> kind, title |-> title, body |-> body, url |-> url]

\* if (autoCopy && url) copyToClipboard(url.trim())
ClipboardEffects(u, url) ==
    IF u.autoCopy /\ url # <<>>
    THEN << Effect("clipboard", Undefined, Undefined, Trim(url)) >>
    ELSE << >>

\* if (window.electronAPI && url) showNotification(title, body, url.trim())
NotifyEffects(u, url) ==
    IF url # <<>>
    THEN << Effect("notify", <<"FastDrop - Upload Complete">>,
                   IF u.autoCopy
                   THEN u.name \o <<" uploaded successfully! Link copied to clipboard.">>
                   ELSE u.name \o <<" uploaded successfully! Click to view in app.">>,
                   Trim(url)) >>
    ELSE << >>

\* How a call to navigator.clipboard.writeText or to showNotification ends:
\* it returns, it throws before returning, or the promise it returns
\* rejects (nobody awaits or catches that promise).
CallResults == {"ok", "throws", "rejects"}

\* The exception a side-effect call throws, as the catch block receives it.
Thrown == [resolved |-> FALSE, isError |-> TRUE, value |-> <<"TypeError">>]

\* No config file and nothing in the environment: Google Drive cannot be
\* selected and every upload goes to 0x0.st.
MainInit ==
    /\ config = NoConfigFile
    /\ env = [GOOGLE_CLIENT_ID |-> "", GOOGLE_CLIENT_SECRET |-> ""]
    /\ drive = IdleDrive
    /\ host = IdleHost
    /\ calls = <<>>

Init ==
    /\ files = <<>>
    /\ autoCopy = FALSE
    /\ uploads = EmptyBag
    /\ timers = EmptyBag
    /\ out = <<>>
    /\ MainInit

\* addFile(filePath), from a drop, the file dialog or the tray.
AddFile(filePath) ==
    /\ files' = AddedFiles(files, filePath)
    /\ out' = <<>>
    /\ UNCHANGED <<autoCopy, uploads, timers>>
    /\ UNCHANGED mainVars

\* What one activation of uploadFile closes over: fileIndex, the file it
\* read (path, name) and autoCopy.  pos is not in the code: it is the place
\* where the entry the upload was started for is now, 0 once it was removed.
Activation(fileIndex, file, copy) ==
    [fileIndex |-> fileIndex, path |-> file.path, name |-> file.name,
     autoCopy |-> copy, pos |-> fileIndex]

\* uploadFile(fileIndex) up to the await: the click on the Upload button of
\* the entry at fileIndex.  The handler reads files[fileIndex] from the last
\* render; React flushes the updates of a click before the next event, so
\* that render shows the current registry.  MaxInflight caps the number of
\* pending activations; the code has no such limit.
Begin(fileIndex) ==
    /\ fileIndex \in DOMAIN files
    /\ ShowsUploadButton(files[fileIndex])
    /\ BagCardinality(uploads) < MaxInflight
    /\ files' = StartedFiles(files, fileIndex)
    /\ uploads' = uploads (+) SetToBag({Activation(fileIndex, files[fileIndex], autoCopy)})
    /\ timers' = timers (+) SetToBag({Activation(fileIndex, files[fileIndex], autoCopy)})
    /\ out' = <<>>
    /\ UNCHANGED autoCopy

\* uploadFile(fileIndex) with 0x0.st selected.
UploadFile(fileIndex) == Begin(fileIndex) /\ UNCHANGED mainVars

\* One firing of the interval timer of the activation u.
Tick(u) ==
    /\ BagIn(u, timers)
    /\ files' = TickedFiles(files, u.fileIndex)
    /\ out' = <<>>
    /\ UNCHANGED <<autoCopy, uploads, timers>>
    /\ UNCHANGED mainVars

\* The timer cleared after the await only, not in the catch block.
ClearedTimers_NotInCatch(T, u, r) == IF r.resolved THEN T (-) SetToBag({u}) ELSE T

\* clearInterval(progressInterval): the first statement after the await and
\* the first of the catch block.
ClearedTimers(T, u, r) == T (-) SetToBag({u})

\* The continuation of uploadFile after the await, for the result r of the
\* provider call; clip and notify say how the two side-effect calls end.
\* The calls are inside the try block: one that throws skips the rest of
\* the block and runs the catch block after the success updater.  The
\* activation is over: its timer is cleared and its closure dropped.
Settle(u, r, clip, notify) ==
    /\ BagIn(u, uploads)
    /\ IF r.resolved
       THEN LET done == SucceededFiles(files, u.fileIndex, r.value)
                copy == ClipboardEffects(u, r.value)
                note == NotifyEffects(u, r.value)
            IN  IF copy # <<>> /\ clip = "throws"
                THEN /\ files' = FailedFiles(done, u.fileIndex, Thrown)
                     /\ out' = copy
                ELSE IF note # <<>> /\ notify = "throws"
                THEN /\ files' = FailedFiles(done, u.fileIndex, Thrown)
                     /\ out' = copy \o note
                ELSE /\ files' = done
                     /\ out' = copy \o note
       ELSE /\ files' = FailedFiles(files, u.fileIndex, r)
            /\ out' = <<>>
    /\ uploads' = uploads (-) SetToBag({u})
    /\ timers' = ClearedTimers(timers, u, r)
    /\ UNCHANGED autoCopy

\* The ways the side-effect calls of the continuation can end: a call that
\* is not made has nothing to choose.
ClipResults(u, r) ==
    IF r.resolved /\ ClipboardEffects(u, r.value) # <<>> THEN CallResults ELSE {"ok"}

NotifyResults(u, r, clip) ==
    IF r.resolved /\ NotifyEffects(u, r.value) # <<>> /\ clip # "throws"
    THEN CallResults ELSE {"ok"}

\* The continuation for the answer resp to an upload through 0x0.st.
Complete(u, resp) ==
    LET r == UploadFileHandler(resp)
    IN  /\ \E clip \in ClipResults(u, r) : \E notify \in NotifyResults(u, r, clip) :
               Settle(u, r, clip, notify)
        /\ UNCHANGED mainVars

\* The provider call of the activation u settles, with any answer to its
\* request.
Completion(u) == \E resp \in Responses(u.path) : Complete(u, resp)

\* Where the entries of the pending activations are after the entry at index
\* has been filtered out.
Shifted(u, index) ==
    [u EXCEPT !.pos = IF @ = index THEN 0 ELSE IF @ > index THEN @ - 1 ELSE @]

RECURSIVE SumCopies(_, _)
SumCopies(S, B) ==
    IF S = {} THEN 0
    ELSE LET u == CHOOSE x \in S : TRUE
         IN  B[u] + SumCopies(S \ {u}, B)

ShiftedUploads(B, index) ==
    [v \in {Shifted(u, index) : u \in BagToSet(B)} |->
        SumCopies({u \in BagToSet(B) : Shifted(u, index) = v}, B)]

\* removeFile(index): the click on the X button of the entry at index.
RemoveFile(index) ==
    /\ index \in DOMAIN files
    /\ files' = RemovedFiles(files, index)
    /\ uploads' = ShiftedUploads(uploads, index)
    /\ timers' = ShiftedUploads(timers, index)
    /\ out' = <<>>
    /\ UNCHANGED autoCopy
    /\ UNCHANGED mainVars

\* toggleAutoCopy: 'set-auto-copy' writes the new value to the config file
\* and returns true, then the flag of the renderer follows.
ToggleAutoCopy ==
    /\ config' = WithAutoCopy(config, ~autoCopy)
    /\ autoCopy' = ~autoCopy
    /\ out' = <<>>
    /\ UNCHANGED <<files, uploads, timers, env, drive, host, calls>>

Next ==
    \/ \E p \in Paths : AddFile(p)
    \/ \E i \in DOMAIN files : UploadFile(i)
    \/ \E u \in BagToSet(timers) : Tick(u)
    \/ \E u \in BagToSet(uploads) : Completion(u)
    \/ \E i \in DOMAIN files : RemoveFile(i)
    \/ ToggleAutoCopy

Spec == Init /\ [][Next]_vars

\* The registry on its own: the flag is what getAutoCopy() delivered after
\* mount and is not toggled while files are handled.
LoadedInit ==
    /\ files = <<>>
    /\ config \in {NoConfigFile, [EmptyRecord EXCEPT !.autoCopy = TRUE]}
    /\ autoCopy = GetAutoCopy(config)
    /\ uploads = EmptyBag
    /\ timers = EmptyBag
    /\ out = <<>>
    /\ env = [GOOGLE_CLIENT_ID |-> "", GOOGLE_CLIENT_SECRET |-> ""]
    /\ drive = IdleDrive
    /\ host = IdleHost
    /\ calls = <<>>

RegistryNext ==
    \/ \E p \in Paths : AddFile(p)
    \/ \E i \in DOMAIN files : UploadFile(i)
    \/ \E u \in BagToSet(timers) : Tick(u)
    \/ \E u \in BagToSet(uploads) : Completion(u)
    \/ \E i \in DOMAIN files : RemoveFile(i)

RegistrySpec == LoadedInit /\ [][RegistryNext]_vars

\* ------------------------------------------------ uploads to Google Drive
\* uploadFile(fileIndex) with Google Drive selected: the 'upload-file'
\* handler is invoked for the entry's path.  The button that selects Google
\* Drive is enabled once getGoogleCredentials() has returned a pair; the
\* config file is read again at every upload and may be anything by then.
\* One invocation is followed at a time.
DriveUploadFile(fileIndex) ==
    /\ drive.pc \in {"idle", "delivered"}
    /\ host.pc \in {"idle", "delivered"}
    /\ Begin(fileIndex)
    /\ drive' = [IdleDrive EXCEPT !.pc = "resolve", !.path = files[fileIndex].path]
    /\ UNCHANGED <<config, env, host, calls>>

DriveResolve ==
    /\ drive.pc = "resolve"
    /\ \E readable \in BOOLEAN : drive' = AfterResolve(drive, readable, config, env)
    /\ out' = <<>>
    /\ UNCHANGED <<files, autoCopy, uploads, timers, config, env, host, calls>>

DriveFilesCreate ==
    /\ drive.pc = "create"
    /\ \E answer \in CreateAnswers : drive' = AfterCreate(drive, answer)
    /\ out' = <<>>
    /\ UNCHANGED <<files, autoCopy, uploads, timers, config, env, host, calls>>

DrivePermissionsCreate ==
    /\ drive.pc = "grant"
    /\ \E ok \in BOOLEAN : drive' = AfterPermission(drive, ok)
    /\ out' = <<>>
    /\ UNCHANGED <<files, autoCopy, uploads, timers, config, env, host, calls>>

\* The continuation of uploadFile for the result of the handler.
DriveDeliver(u) ==
    /\ drive.pc = "done"
    /\ \E clip \in ClipResults(u, drive.result) :
         \E notify \in NotifyResults(u, drive.result, clip) :
            Settle(u, drive.result, clip, notify)
    /\ drive' = [drive EXCEPT !.pc = "delivered"]
    /\ UNCHANGED <<config, env, host, calls>>

\* The pairs the user saves: both fields are non-blank after trim().
SavedPairs == { <<"stored-id", "stored-secret">>, <<"new-id", "new-secret">> }

\* saveCredentials: the handler merges the pair into the config file.
SaveGoogleCredentials ==
    /\ \E pair \in SavedPairs : config' = SavedConfig(config, pair[1], pair[2])
    /\ out' = <<>>
    /\ UNCHANGED <<files, autoCopy, uploads, timers, env, drive, host, calls>>

\* The config file and the environment are whatever the user left there.
DriveInit ==
    /\ files = <<>>
    /\ config \in ConfigFiles
    /\ autoCopy = GetAutoCopy(config)
    /\ uploads = EmptyBag
    /\ timers = EmptyBag
    /\ out = <<>>
    /\ env \in Environments
    /\ drive = IdleDrive
    /\ host = IdleHost
    /\ calls = <<>>

DriveNext ==
    \/ \E p \in Paths : AddFile(p)
    \/ \E i \in DOMAIN files : DriveUploadFile(i)
    \/ \E u \in BagToSet(timers) : Tick(u)
    \/ DriveResolve
    \/ DriveFilesCreate
    \/ DrivePermissionsCreate
    \/ \E u \in BagToSet(uploads) : DriveDeliver(u)
    \/ SaveGoogleCredentials

DriveSpec == DriveInit /\ [][DriveNext]_vars

\* -------------------------------------- uploads to 0x0.st, call by call
\* uploadFile(fileIndex) with 0x0.st selected, the handler followed through
\* its calls.
HostUploadFile(fileIndex) ==
    /\ host.pc \in {"idle", "delivered"}
    /\ drive.pc \in {"idle", "delivered"}
    /\ Begin(fileIndex)
    /\ host' = [IdleHost EXCEPT !.pc = "read", !.path = files[fileIndex].path]
    /\ UNCHANGED <<config, env, drive, calls>>

HostRead ==
    /\ host.pc = "read"
    /\ \E readable \in BOOLEAN : host' = AfterRead(host, readable)
    /\ out' = <<>>
    /\ UNCHANGED <<files, autoCopy, uploads, timers, config, env, drive, calls>>

HostFetch ==
    /\ host.pc = "fetch"
    /\ \E resp \in HostAnswers(host.path) : host' = AfterFetch(host, resp)
    /\ out' = <<>>
    /\ UNCHANGED <<files, autoCopy, uploads, timers, config, env, drive, calls>>

\* The continuation of uploadFile for the result of the handler.
HostDeliver(u) ==
    /\ host.pc = "done"
    /\ \E clip \in ClipResults(u, host.result) :
         \E notify \in NotifyResults(u, host.result, clip) :
            Settle(u, host.result, clip, notify)
    /\ host' = [host EXCEPT !.pc = "delivered"]
    /\ UNCHANGED <<config, env, drive, calls>>

\* The application after mount: no config file, one that does not parse or
\* a record with auto-copy on, and the environment without or with the
\* Google client.
SettingsInit ==
    /\ files = <<>>
    /\ config \in {NoConfigFile, CorruptedFile, [EmptyRecord EXCEPT !.autoCopy = TRUE]}
    /\ autoCopy = GetAutoCopy(config)
    /\ uploads = EmptyBag
    /\ timers = EmptyBag
    /\ out = <<>>
    /\ env \in { [GOOGLE_CLIENT_ID |-> "", GOOGLE_CLIENT_SECRET |-> ""],
                  [GOOGLE_CLIENT_ID |-> "env-id", GOOGLE_CLIENT_SECRET |-> "env-secret"] }
    /\ drive = IdleDrive
    /\ host = IdleHost
    /\ calls = <<>>

\* Both providers and the settings, every call of the main process a step.
MainNext ==
    \/ \E p \in Paths : AddFile(p)
    \/ \E i \in DOMAIN files : HostUploadFile(i)
    \/ \E i \in DOMAIN files : DriveUploadFile(i)
    \/ \E u \in BagToSet(timers) : Tick(u)
    \/ HostRead
    \/ HostFetch
    \/ \E u \in BagToSet(uploads) : HostDeliver(u)
    \/ DriveResolve
    \/ DriveFilesCreate
    \/ DrivePermissionsCreate
    \/ \E u \in BagToSet(uploads) : DriveDeliver(u)
    \/ SaveGoogleCredentials
    \/ ToggleAutoCopy

MainSpec == SettingsInit /\ [][MainNext]_vars

\* ------------------------------------------- the config handlers, by await
\* An invocation of 'save-google-credentials', 'set-auto-start' or
\* 'set-auto-copy' as it is started: key is the key of config it sets,
\* enabled or (clientId, clientSecret) its argument, pc the await it has
\* reached, record the local variable config, success whether its
\* writeFile resolved.
NewCall(key, enabled, pair) ==
    [key |-> key, enabled |-> enabled, clientId |-> pair[1], clientSecret |-> pair[2],
     pc |-> "read", record |-> EmptyRecord, success |-> FALSE]

\* What the renderer asks for: saveCredentials with a pair, setAutoStart and
\* setAutoCopy with a boolean.
Requests ==
    { NewCall("googleCredentials", FALSE, pair) : pair \in SavedPairs }
    \cup { NewCall(key, enabled, <<"", "">>) :
             key \in {"autoStart", "autoCopy"}, enabled \in BOOLEAN }

\* The assignment to one key of the local variable config.
Assigned(record, call) ==
    IF call.key = "googleCredentials"
    THEN [record EXCEPT !.googleCredentials = TRUE, !.clientId = call.clientId,
                        !.clientSecret = call.clientSecret]
    ELSE IF call.key = "autoStart"
    THEN [record EXCEPT !.autoStart = call.enabled]
    ELSE [record EXCEPT !.autoCopy = call.enabled]

\* ipcRenderer.invoke of one of the three handlers; nothing in the renderer
\* waits for an earlier invocation to return.
InvokeHandler ==
    /\ Len(calls) < MaxCalls
    /\ \E call \in Requests : calls' = Append(calls, call)
    /\ out' = <<>>
    /\ UNCHANGED <<files, autoCopy, uploads, timers, config, env, drive, host>>

\* The handler up to await writeFile: it has read and parsed the file as it
\* is now.
HandlerRead(i) ==
    /\ calls[i].pc = "read"
    /\ calls' = [calls EXCEPT ![i].pc = "write", ![i].record = ReadForUpdate(config)]
    /\ out' = <<>>
    /\ UNCHANGED <<files, autoCopy, uploads, timers, config, env, drive, host>>

\* await writeFile(configPath, JSON.stringify(config)) and the return: the
\* file becomes the record read earlier with the one key set, or writeFile
\* rejects and the handler reports the failure.
HandlerWrite(i) ==
    /\ calls[i].pc = "write"
    /\ \E ok \in BOOLEAN :
         /\ config' = IF ok THEN Assigned(calls[i].record, calls[i]) ELSE config
         /\ calls' = [calls EXCEPT ![i].pc = "done", ![i].success = ok]
    /\ out' = <<>>
    /\ UNCHANGED <<files, autoCopy, uploads, timers, env, drive, host>>

ConfigInit ==
    /\ files = <<>>
    /\ config \in { NoConfigFile, CorruptedFile, [EmptyRecord EXCEPT !.autoCopy = TRUE],
                    [EmptyRecord EXCEPT !.googleCredentials = TRUE, !.clientId = "stored-id",
                                        !.clientSecret = "stored-secret", !.autoStart = TRUE] }
    /\ autoCopy = GetAutoCopy(config)
    /\ uploads = EmptyBag
    /\ timers = EmptyBag
    /\ out = <<>>
    /\ env = [GOOGLE_CLIENT_ID |-> "", GOOGLE_CLIENT_SECRET |-> ""]
    /\ drive = IdleDrive
    /\ host = IdleHost
    /\ calls = <<>>

ConfigNext ==
    \/ InvokeHandler
    \/ \E i \in DOMAIN calls : HandlerRead(i)
    \/ \E i \in DOMAIN calls : HandlerWrite(i)

ConfigSpec == ConfigInit /\ [][ConfigNext]_vars

\* Every provider call settles: the continuation of each pending activation
\* eventually runs.  Timers and user actions are not forced.
Activations ==
    { [Activation(i, NewFile(p), copy) EXCEPT !.pos = q] :
         i \in 1..Cardinality(Paths), p \in Paths, copy \in BOOLEAN, q \in 0..Cardinality(Paths) }

FairSpec == Init /\ [][Next]_vars /\ \A u \in Activations : WF_vars(Completion(u))

TypeOK ==
    /\ Len(files) <= Cardinality(Paths)
    /\ \A i \in DOMAIN files : files[i].state \in {"idle", "uploading", "success", "error"}
    /\ BagCardinality(uploads) <= MaxInflight
    /\ BagToSet(uploads) \subseteq Activations

\* ------------------------------------------------------------ properties
\* An entry is followed through a step by its path: no step both removes an
\* entry and adds one.
Has(fs, p) == \E i \in DOMAIN fs : fs[i].path = p

EntryOf(fs, p) == fs[CHOOSE i \in DOMAIN fs : fs[i].path = p]

Terminal == {"success", "error"}

\* The step is the continuation of the pending activation u.
Completes(u) == BagIn(u, uploads) /\ uploads' = uploads (-) SetToBag({u})

\* C1: the state of an entry, followed from its add to its removal, changes
\* only by idle -> uploading, uploading -> success or uploading -> error.
C1_OnlyLegalTransitions ==
    [][\A p \in Paths :
         (Has(files, p) /\ Has(files', p)) =>
            LET a == EntryOf(files, p).state
                b == EntryOf(files', p).state
            IN  \/ a = b
                \/ <<a, b>> \in { <<"idle", "uploading">>,
                                  <<"uploading", "success">>,
                                  <<"uploading", "error">> }]_vars

\* C2: the completion of an upload whose entry was removed while it was in
\* flight leaves the registry as it is.
C2_LateCompletionIsNoOp ==
    [][\A u \in BagToSet(uploads) :
         (u.pos = 0 /\ Completes(u)) => files' = files]_vars

\* C3: the completion of an upload whose entry was removed while it was in
\* flight issues no clipboard write and no notification request.
C3_LateCompletionIsSilent ==
    [][\A u \in BagToSet(uploads) :
         (u.pos = 0 /\ Completes(u)) => out' = <<>>]_vars

\* The urls and the error texts a provider call for filePath can end with.
UrlsFor(filePath) ==
    { Trim(UploadFileHandler(resp).value) :
        resp \in {x \in Responses(filePath) : UploadFileHandler(x).resolved} }

ErrorsFor(filePath) ==
    { ErrorText(UploadFileHandler(resp)) :
        resp \in {x \in Responses(filePath) : ~UploadFileHandler(x).resolved} }

\* C4: a success entry carries the url, and an error entry the error, of a
\* provider call made for its own path.
C4_ResultOfOwnCall ==
    \A i \in DOMAIN files :
        /\ files[i].state = "success" => files[i].url \in UrlsFor(files[i].path)
        /\ files[i].state = "error" => files[i].error \in ErrorsFor(files[i].path)

\* C5: an entry that is uploading is eventually success or error, or removed.
C5_UploadingEnds ==
    \A p \in Paths :
        (Has(files, p) /\ EntryOf(files, p).state = "uploading")
            ~> (~Has(files, p) \/ EntryOf(files, p).state \in Terminal)

\* C6: a tick or a completion of an upload changes no entry but the one the
\* upload was started for.
C6_OnlyOwnEntryChanges ==
    [][\A u \in BagToSet(uploads) :
         (Tick(u) \/ Completes(u)) =>
            \A i \in DOMAIN files : i # u.pos => files'[i] = files[i]]_vars

NoDuplicatePaths ==
    \A i, j \in DOMAIN files : files[i].path = files[j].path => i = j

\* C7: no two entries have the same path; addFile(p) leaves the list as it
\* is when p is registered and otherwise appends one idle entry for p with
\* progress 0.
C7_IdempotentAdd ==
    /\ NoDuplicatePaths
    /\ [][/\ NoDuplicatePaths'
          /\ \A p \in Paths :
            AddFile(p) =>
               IF Has(files, p)
               THEN files' = files
               ELSE /\ Len(files') = Len(files) + 1
                    /\ SubSeq(files', 1, Len(files)) = files
                    /\ files'[Len(files')].path = p
                    /\ files'[Len(files')].state = "idle"
                    /\ files'[Len(files')].progress = 0]_vars

C7_Witness == Len(files) = Cardinality(Paths)

\* C8: once an entry is success or error, none of its fields changes while
\* it stays in the registry.
C8_TerminalIsFrozen ==
    [][\A p \in Paths :
         (Has(files, p) /\ Has(files', p) /\ EntryOf(files, p).state \in Terminal)
            => EntryOf(files', p) = EntryOf(files, p)]_vars

\* C9: progress is in 0..100, at most 90 while uploading, 100 when success
\* and 0 when idle or error.
C9_ProgressRange ==
    \A i \in DOMAIN files :
        /\ files[i].progress \in 0..100
        /\ files[i].state = "uploading" => files[i].progress <= 90
        /\ files[i].state = "success" => files[i].progress = 100
        /\ files[i].state \in {"idle", "error"} => files[i].progress = 0

C9_Witness ==
    /\ \E i \in DOMAIN files : files[i].state = "uploading" /\ files[i].progress = 90
    /\ \E i \in DOMAIN files : files[i].state = "success"

\* C10: the progress of an entry that stays uploading does not decrease.
C10_ProgressMonotone ==
    [][\A p \in Paths :
         (/\ Has(files, p) /\ Has(files', p)
          /\ EntryOf(files, p).state = "uploading"
          /\ EntryOf(files', p).state = "uploading")
            => EntryOf(files', p).progress >= EntryOf(files, p).progress]_vars

C10_Witness ==
    /\ BagCardinality(uploads) = MaxInflight
    /\ \E i \in DOMAIN files : files[i].state = "uploading" /\ files[i].progress >= 20

\* The step is the continuation of u and leaves the entry at its index in
\* success (the provider call resolved and no side-effect call threw), or
\* in error.
SuccessStep(u) ==
    Completes(u) /\ u.fileIndex \in DOMAIN files /\ files'[u.fileIndex].state = "success"

ErrorStep(u) ==
    Completes(u) /\ u.fileIndex \in DOMAIN files /\ files'[u.fileIndex].state = "error"

IsClipboard(e) == e.kind = "clipboard"

IsNotify(e) == e.kind = "notify"

LinkCopied(name) == name \o <<" uploaded successfully! Link copied to clipboard.">>

OpenTheApp(name) == name \o <<" uploaded successfully! Click to view in app.">>

\* C11: an entry has a url exactly when it is success and an error message
\* exactly when it is error, and the url of a success entry is not empty.
C11_UrlIffSuccess ==
    \A i \in DOMAIN files :
        /\ files[i].url # Undefined <=> files[i].state = "success"
        /\ files[i].error # Undefined <=> files[i].state = "error"
        /\ files[i].state = "success" => files[i].url # <<>>

\* The number of pending activations in the set S.
Pending(S) == SumCopies(S \cap BagToSet(uploads), uploads)

\* C12: at most one provider call is unresolved for any one path.
C12_OneCallPerPath ==
    \A p \in Paths : Pending({u \in BagToSet(uploads) : u.path = p}) <= 1

\* C12, amended: at most one provider call is unresolved for any one entry
\* of the registry.
C12_OneCallPerEntry ==
    \A i \in DOMAIN files : Pending({u \in BagToSet(uploads) : u.pos = i}) <= 1

C12_Witness ==
    \E i \in DOMAIN files :
        /\ Pending({u \in BagToSet(uploads) : u.pos = i}) = 1
        /\ Pending({u \in BagToSet(uploads) : u.path = files[i].path}) = 2

\* C13: with the flag on, a success transition makes exactly one clipboard
\* write, of the url the entry gets, before the notification request; with
\* the flag off it makes none.
C13_CopyOnSuccess ==
    [][\A u \in BagToSet(uploads) :
         SuccessStep(u) =>
            LET clips == SelectSeq(out', IsClipboard)
            IN  IF autoCopy
                THEN /\ Len(clips) = 1
                     /\ clips[1].url = files'[u.fileIndex].url
                     /\ IsClipboard(out'[1])
                ELSE clips = <<>>]_vars

\* C14: the clipboard write and the wording of the notification of a
\* success transition follow the value the flag has at that transition.
C14_FlagReadAtCompletion ==
    [][\A u \in BagToSet(uploads) :
         (SuccessStep(u) /\ out' # <<>>) =>
            /\ (SelectSeq(out', IsClipboard) # <<>>) <=> autoCopy
            /\ \A k \in DOMAIN out' :
                 IsNotify(out'[k]) =>
                    out'[k].body = IF autoCopy THEN LinkCopied(u.name) ELSE OpenTheApp(u.name)]_vars

\* C15: a success transition requests exactly one notification, whatever
\* the flag and the url; its body says the link was copied when the flag
\* is on and invites to open the app otherwise.
C15_AlwaysNotifies ==
    [][\A u \in BagToSet(uploads) :
         SuccessStep(u) =>
            LET notes == SelectSeq(out', IsNotify)
            IN  /\ Len(notes) = 1
                /\ notes[1].body = IF autoCopy THEN LinkCopied(u.name) ELSE OpenTheApp(u.name)]_vars

\* C16: an upload that ends in error makes no clipboard write and no
\* notification request.
C16_ErrorIsSilent ==
    [][\A u \in BagToSet(uploads) : ErrorStep(u) => out' = <<>>]_vars

\* C17: when the provider call succeeded and a clipboard write or a
\* notification request was made, the entry is success with progress 100
\* and the url, however those calls end.
C17_EffectFailureKeepsSuccess ==
    [][\A u \in BagToSet(uploads) :
         (Completes(u) /\ out' # <<>> /\ u.fileIndex \in DOMAIN files) =>
            /\ files'[u.fileIndex].state = "success"
            /\ files'[u.fileIndex].progress = ProgressDone
            /\ files'[u.fileIndex].url = out'[1].url]_vars

\* The entry the invocation of the handler was made for.
DriveEntries == {i \in DOMAIN files : files[i].path = drive.path}

\* C18: a Google Drive upload whose resolved client id or secret is empty
\* makes no drive.files.create and no drive.permissions.create call and is
\* handed back as the configuration error; the entry ends in error with it.
Unusable(cr) == cr.CLIENT_ID = "" \/ cr.CLIENT_SECRET = ""

C18_NoCallWithoutCredentials ==
    (drive.credentials # <<>> /\ Unusable(drive.credentials[1])) =>
        /\ drive.creates = 0
        /\ drive.grants = 0
        /\ drive.pc \in {"done", "delivered"}
        /\ drive.result = DriveFailure(NotConfigured)
        /\ drive.pc = "delivered" =>
              \A i \in DriveEntries :
                 files[i].state = "error" /\ files[i].error = DriveFailure(NotConfigured).value

C18_Witness ==
    /\ drive.pc = "delivered"
    /\ drive.credentials # <<>>
    /\ Unusable(drive.credentials[1])
    /\ DriveEntries # {}
    /\ env.GOOGLE_CLIENT_ID # ""

\* C19: the resolution step takes the stored pair whenever the store has
\* one, takes the environment's pair when the store has none, and leaves
\* the upload without credentials exactly when the store has none and the
\* environment lacks the id or the secret.
C19_ResolutionOrder ==
    [][(drive.credentials = <<>> /\ drive'.credentials # <<>>) =>
         LET stored == GetGoogleCredentials(config)
             cr == drive'.credentials[1]
         IN  /\ stored # <<>> =>
                  cr = [CLIENT_ID |-> stored[1].clientId, CLIENT_SECRET |-> stored[1].clientSecret]
             /\ stored = <<>> =>
                  cr = [CLIENT_ID |-> env.GOOGLE_CLIENT_ID,
                        CLIENT_SECRET |-> env.GOOGLE_CLIENT_SECRET]
             /\ ~Configured(cr) <=>
                  (stored = <<>> /\ (env.GOOGLE_CLIENT_ID = "" \/ env.GOOGLE_CLIENT_SECRET = ""))]_vars

\* C20: when drive.files.create returned an id and the permission grant
\* failed, each call was made exactly once, the handler hands back a
\* failure and no url, and the entry ends in error without a url.
PermissionFailed ==
    drive.permission = "failed" =>
        /\ drive.creates = 1
        /\ drive.grants = 1
        /\ drive.pc \in {"done", "delivered"}
        /\ ~drive.result.resolved
        /\ drive.pc = "delivered" =>
              \A i \in DriveEntries : files[i].state = "error" /\ files[i].url = Undefined

UrlOnlyAfterBothCalls ==
    /\ drive.result.resolved =>
          /\ drive.created = "id"
          /\ drive.permission = "ok"
          /\ drive.creates = 1
          /\ drive.grants = 1
          /\ drive.result.value = <<"https://drive.google.com/file/d/", drive.fileId, "/view">>
    /\ drive.grants > 0 => drive.created = "id" /\ drive.fileId \in CreateAnswers \ {"rejects", "noId"}

C21_UrlAfterCreateThenGrant ==
    /\ UrlOnlyAfterBothCalls
    /\ [][/\ UrlOnlyAfterBothCalls'
          /\ drive'.grants > drive.grants => (drive.created = "id" /\ drive.creates = 1)
          /\ drive'.creates > drive.creates => drive.grants = 0]_vars

C21_Witness ==
    /\ drive.pc = "delivered"
    /\ drive.result.resolved
    /\ \E i \in DriveEntries : files[i].state = "success" /\ files[i].url = DriveUrl("f1")

\* t is b without the white space at its two ends, nothing else changed.
IsTrimOf(t, b) ==
    \E i \in 0..Len(b) :
        /\ i + Len(t) <= Len(b)
        /\ SubSeq(b, i + 1, i + Len(t)) = t
        /\ \A k \in 1..Len(b) : (k <= i \/ k > i + Len(t)) => b[k] = " "
        /\ t = <<>> \/ (t[1] # " " /\ t[Len(t)] # " ")

\* b is the end of v.
IsSuffixOf(b, v) == Len(b) <= Len(v) /\ SubSeq(v, Len(v) - Len(b) + 1, Len(v)) = b

\* The entry the invocation of the 0x0 handler was made for.
HostEntries == {i \in DOMAIN files : files[i].path = host.path}

\* C22: an upload to 0x0.st whose file could be read sends exactly one POST;
\* on a 2xx answer the handler hands back the body without the white space
\* at its ends and otherwise unchanged, on any other answer it hands back
\* an error that carries the status and the body, and no url.
C22_OnePostTrimmedBody ==
    /\ host.posts <= 1
    /\ host.pc = "fetch" => host.posts = 0
    /\ host.pc \in {"done", "delivered"} =>
          \/ host.posts = 0 /\ ~host.result.resolved /\ host.result.value[2] = "ENOENT"
          \/ /\ host.posts = 1
             /\ IF host.response.status \in {"200", "201"}
                THEN /\ host.result.resolved
                     /\ IsTrimOf(host.result.value, host.response.body)
                ELSE /\ ~host.result.resolved
                     /\ host.result.isError
                     /\ \E k \in DOMAIN host.result.value :
                           host.result.value[k] = host.response.status
                     /\ IsSuffixOf(host.response.body, host.result.value)
    /\ (host.pc = "delivered" /\ ~host.result.resolved) =>
          \A i \in HostEntries : files[i].url = Undefined

C22_Witness ==
    /\ host.pc = "delivered"
    /\ host.response.body = <<"https://0x0.st/x", " ", "y", " ">>
    /\ \E i \in HostEntries :
          files[i].state = "success" /\ files[i].url = <<"https://0x0.st/x", " ", "y">>

\* The invocations of the 'upload-file' handler that have not been answered
\* to the renderer.
InvocationsInFlight ==
    (IF host.pc \in {"read", "fetch", "done"} THEN 1 ELSE 0)
    + (IF drive.pc \in {"resolve", "create", "grant", "done"} THEN 1 ELSE 0)

OneAttempt ==
    /\ host.posts <= 1
    /\ drive.creates <= 1
    /\ drive.grants <= 1
    /\ InvocationsInFlight = BagCardinality(uploads)
    /\ \A i \in DOMAIN files :
          files[i].state = "error" => \A u \in BagToSet(uploads) : u.fileIndex # i

BadConfigFile == ~config.exists \/ ~config.parses

\* The pairs of SavedPairs as getCredentials returns them.
SavedCredentials == { <<[clientId |-> p[1], clientSecret |-> p[2]]>> : p \in SavedPairs }

\* C24: without a config file, or with one that does not parse,
\* getCredentials returns null and getAutoCopy false, saveCredentials and
\* setAutoCopy can still run, and each write leaves a record that parses
\* and from which the value just saved is read back.
BadFileReads ==
    BadConfigFile => GetGoogleCredentials(config) = <<>> /\ GetAutoCopy(config) = FALSE

BadFileWrites ==
    BadConfigFile => ENABLED SaveGoogleCredentials /\ ENABLED ToggleAutoCopy

C24_BadFileIsNotFatal ==
    /\ BadFileReads
    /\ BadFileWrites
    /\ [][/\ BadFileReads'
          /\ config' # config =>
               /\ config'.exists /\ config'.parses
               /\ BadConfigFile => config'.over \in {"missing", "corrupted"}
               /\ IF autoCopy' # autoCopy
                  THEN GetAutoCopy(config') = ~autoCopy /\ autoCopy' = ~autoCopy
                  ELSE GetGoogleCredentials(config') \in SavedCredentials]_vars

C24_Witness ==
    /\ config.over = "corrupted"
    /\ config.parses
    /\ GetGoogleCredentials(config) = <<[clientId |-> "new-id", clientSecret |-> "new-secret"]>>
    /\ GetAutoCopy(config) = FALSE

\* C25: addFile(p) changes nothing while the registry has an entry for p,
\* whatever its state, success and error included; when it has none, after
\* removeFile for instance, addFile(p) appends an entry that is idle with
\* progress 0, no url and no error, and leaves the others as they are.
C25_FinishedEntryBlocksAdd ==
    [][\A p \in Paths :
         AddFile(p) =>
            IF Has(files, p)
            THEN files' = files
            ELSE /\ Len(files') = Len(files) + 1
                 /\ \A i \in DOMAIN files : files'[i] = files[i]
                 /\ files'[Len(files')].path = p
                 /\ files'[Len(files')].state = "idle"
                 /\ files'[Len(files')].progress = 0
                 /\ files'[Len(files')].url = Undefined
                 /\ files'[Len(files')].error = Undefined]_vars

C25_Witness ==
    \E i, j \in DOMAIN files :
        /\ files[i].state \in Terminal
        /\ files[j].state = "idle"
        /\ \E u \in BagToSet(uploads) : u.path = files[j].path /\ u.pos = 0

\* The step starts the activation u: its timer and its provider call.
Starts(u) == uploads' = uploads (+) SetToBag({u})

TimersOfPendingUploads ==
    \A u \in BagToSet(timers) : BagIn(u, uploads) /\ CopiesIn(u, timers) <= CopiesIn(u, uploads)

\* C27: the continuation of an upload clears its timer whether the call
\* resolved or rejected, so the timers that are set are timers of uploads
\* still waiting for their call, and no firing of a timer changes an entry
\* that is success or error.
C27_TimerStoppedOnEveryExit ==
    /\ TimersOfPendingUploads
    /\ [][/\ TimersOfPendingUploads'
          /\ \A u \in BagToSet(uploads) :
                Completes(u) => CopiesIn(u, timers') = CopiesIn(u, timers) - 1
          /\ \A u \in BagToSet(timers) :
                Tick(u) =>
                   \A i \in DOMAIN files :
                      files[i].state \in Terminal => files'[i] = files[i]]_vars

C27_Witness ==
    \E i, j \in DOMAIN files :
        /\ files[i].state = "error"
        /\ files[j].state = "uploading"
        /\ files[j].progress > 0
        /\ BagCardinality(timers) = 1
        /\ \E u \in BagToSet(timers) : u.pos = j

\* C28: removeFile, called for an entry in whatever state, takes out
\* that entry alone: the entries before it stay where they are, those after
\* it move up by one, all with their fields unchanged; no pending provider
\* call and no timer is cancelled by it.
C28_RemoveExactlyTarget ==
    [][\A i \in DOMAIN files :
         RemoveFile(i) =>
            /\ Len(files') = Len(files) - 1
            /\ \A j \in DOMAIN files' : files'[j] = IF j < i THEN files[j] ELSE files[j + 1]
            /\ BagCardinality(uploads') = BagCardinality(uploads)
            /\ BagCardinality(timers') = BagCardinality(timers)]_vars

C28_Witness ==
    /\ Len(files) = 1
    /\ files[1].state = "success"
    /\ \E u \in BagToSet(uploads) : u.pos = 0 /\ u.path # files[1].path /\ u.fileIndex = 1

\* C29: the resolution step of every Google Drive upload reads the config
\* file as it is then, and after a save that file holds the saved pair, so
\* the upload takes the pair of the last save; the pair an upload has
\* resolved stays the same until that upload is over, whatever is saved in
\* between.
C29_CredentialsReadPerUpload ==
    [][/\ (drive.credentials = <<>> /\ drive'.credentials # <<>>
              /\ GetGoogleCredentials(config) # <<>>) =>
             drive'.credentials[1] =
                [CLIENT_ID |-> GetGoogleCredentials(config)[1].clientId,
                 CLIENT_SECRET |-> GetGoogleCredentials(config)[1].clientSecret]
       /\ \A pair \in SavedPairs :
             (config' = SavedConfig(config, pair[1], pair[2]) /\ drive' = drive) =>
                GetGoogleCredentials(config') =
                   <<[clientId |-> pair[1], clientSecret |-> pair[2]]>>
       /\ (drive.credentials # <<>> /\ drive'.pc # "resolve") =>
             drive'.credentials = drive.credentials]_vars

C29_Witness ==
    /\ drive.pc \in {"create", "grant"}
    /\ drive.credentials = <<[CLIENT_ID |-> "new-id", CLIENT_SECRET |-> "new-secret"]>>
    /\ config.clientId = "stored-id"
    /\ config.over = "record"
    /\ env.GOOGLE_CLIENT_ID = "env-id"

\* C30: when drive.files.create resolves without an identifier, the handler
\* makes no drive.permissions.create call and hands back the error, no url;
\* the entry ends in error without a url.
C30_NoIdentifierIsFailure ==
    drive.created = "noId" =>
        /\ drive.grants = 0
        /\ drive.creates = 1
        /\ drive.pc \in {"done", "delivered"}
        /\ drive.result = DriveFailure(NoFileId)
        /\ drive.pc = "delivered" =>
              \A i \in DriveEntries : files[i].state = "error" /\ files[i].url = Undefined

C30_Witness ==
    /\ drive.created = "noId"
    /\ drive.pc = "delivered"
    /\ \E i \in DriveEntries : files[i].error = DriveFailure(NoFileId).value

\* The answer of an 'upload-file' invocation whose readFile rejected.
Unreadable(filePath) == CHOOSE resp \in Responses(filePath) : ~resp.readable

\* C32: when the file of an upload cannot be read, the entry the upload was
\* started for, if it is still listed, ends in error with progress 0 and
\* the message of the read failure, and the timer of the upload is cleared.
C32_UnreadableFileEndsInError ==
    [][\A u \in BagToSet(uploads) :
         (Complete(u, Unreadable(u.path)) /\ u.pos # 0) =>
            /\ files'[u.pos].state = "error"
            /\ files'[u.pos].progress = 0
            /\ files'[u.pos].error = ReadFailure(u.path).value
            /\ CopiesIn(u, timers') = CopiesIn(u, timers) - 1]_vars

\* What the persisted record holds under one key.
KeyValue(c, key) ==
    IF key = "googleCredentials" THEN <<c.googleCredentials, c.clientId, c.clientSecret>>
    ELSE IF key = "autoStart" THEN <<c.autoStart>>
    ELSE <<c.autoCopy>>

\* C31: no update is lost: a handler that reports success has written its
\* own key and has left under every other key what the persisted record
\* held when it wrote, whether it ran alone or while another handler was
\* running.
C31_NoUpdateLost ==
    [][\A i \in DOMAIN calls :
         (HandlerWrite(i) /\ calls'[i].success /\ config.exists /\ config.parses) =>
            /\ KeyValue(config', calls[i].key) = KeyValue(Assigned(config, calls[i]), calls[i].key)
            /\ \A key \in {"googleCredentials", "autoStart", "autoCopy"} \ {calls[i].key} :
                  KeyValue(config', key) = KeyValue(config, key)]_vars
====
